---- MODULE Spec2Model ----
(***************************************************************************)
(* Geometry operators of ratatui-core (layout/rect/ops.rs), the default    *)
(* Backend::clear_region of the backend trait (src/backend.rs) and the     *)
(* Scrollbar widget with its ScrollbarState (src/widgets/scrollbar.rs), the *)
(* run loop of the minimal example (examples/minimal.rs) and the render     *)
(* pass of the Terminal.                                                    *)
(*                                                                         *)
(* Rect fields are u16, Offset fields are i32.  Every arithmetic step is   *)
(* written so that no intermediate value leaves the i32 range.             *)
(***************************************************************************)
EXTENDS Integers, Sequences, FiniteSets

VARIABLES
    rect,            \* the Rect the program holds
    prev,            \* the Rect operand of the last operator
    op,              \* the last operator applied ("init" before any)
    arg,             \* the Offset or Size operand of the last operator
    out,             \* outcome of the last operator: a value or a panic
    steps,           \* number of operators applied so far
    screen,          \* backend: the cells of the terminal screen
    cursor,          \* backend: the cursor position
    calls,           \* backend: trait methods invoked by the last clear_region
    ret,             \* backend: io::Result returned by the last backend call
    before,          \* backend: screen and cursor when the last call began
    bsteps,          \* backend: number of backend calls made so far
    state,           \* scrollbar: the ScrollbarState
    prior,           \* scrollbar: the ScrollbarState when the last call began
    scrollbar,       \* scrollbar: the Scrollbar widget (orientation and symbols)
    area,            \* scrollbar: the Rect handed to render
    writes,          \* scrollbar: the buf.set_string calls of render, in order
    nsteps,          \* scrollbar: number of ScrollbarState calls made so far
    terminal,        \* render pipeline: the Terminal (its buffers) and the last pass
    app              \* minimal example: where main and run are, and what they did

geomVars == <<rect, prev, op, arg, out, steps>>
backendVars == <<screen, cursor, calls, ret, before, bsteps>>
scrollVars == <<state, prior, scrollbar, area, writes, nsteps>>
pipelineVars == <<terminal, app>>
vars == <<rect, prev, op, arg, out, steps,
          screen, cursor, calls, ret, before, bsteps,
          state, prior, scrollbar, area, writes, nsteps,
          terminal, app>>

----------------------------------------------------------------------------
(* Integer widths *)

U16Max == 65535
I32Max == 2147483647
I32Min == -2147483647 - 1

(* Bounds of the model *)
MaxSteps == 2    \* operators applied in one behaviour
ScreenCells == 3 \* cells of the modelled terminal screen
MaxCalls == 3    \* backend calls made in one behaviour
MaxScrolls == 3  \* ScrollbarState calls made in one behaviour
MaxLen == 10     \* cells of the rendered area along the scrollbar's axis
MaxFrames == 3   \* frames drawn in one behaviour
MaxPasses == 3   \* render passes of the Terminal in one behaviour

----------------------------------------------------------------------------
(* Values *)

Rect(x, y, width, height) == [x |-> x, y |-> y, width |-> width, height |-> height]
Offset(x, y) == [x |-> x, y |-> y]
Size(width, height) == [width |-> width, height |-> height]

OffsetZERO == Offset(0, 0)
OffsetMIN == Offset(I32Min, I32Min)
OffsetMAX == Offset(I32Max, I32Max)
SizeZERO == Size(0, 0)
SizeMAX == Size(U16Max, U16Max)

TestRect == Rect(3, 4, 5, 6)

\* Sampled inputs: values at both ends of the u16 and i32 ranges, and the
\* operands of the unit tests
U16Samples == {0, 1, U16Max - 1, U16Max}
Rects == [x : U16Samples, y : U16Samples, width : U16Samples, height : U16Samples]
             \cup {TestRect}
Offsets ==
    {OffsetZERO, OffsetMIN, OffsetMAX, Offset(0 - I32Max, 0 - I32Max),
     Offset(1, 2), Offset(-1, -2), Offset(I32Min, 1), Offset(-1, I32Min),
     Offset(I32Max, 0), Offset(0, I32Max)}
Sizes == {SizeZERO, SizeMAX, Size(1, 2), Size(U16Max, 0), Size(0, 1)}

NoArg == [none |-> TRUE]
Panic == [panic |-> TRUE]
Value(v) == [value |-> v]

FarEdgeOK(r) == r.x + r.width <= U16Max /\ r.y + r.height <= U16Max

----------------------------------------------------------------------------
(* Primitive integer operations of the standard library, as the code uses them *)

\* i32::saturating_add (preceded by the wrapping addition it is not)
WrappingAddI32(a, b) ==
    IF b > 0 /\ a > I32Max - b THEN (a - I32Max - 1) + (b - I32Max - 1)
    ELSE IF b < 0 /\ a < I32Min - b THEN (a + I32Max + 1) + (b + I32Max + 1)
    ELSE a + b
SaturatingAddI32(a, b) ==
    IF b > 0 /\ a > I32Max - b THEN I32Max
    ELSE IF b < 0 /\ a < I32Min - b THEN I32Min
    ELSE a + b

\* i32::saturating_sub (preceded by the wrapping subtraction it is not)
WrappingSubI32(a, b) ==
    IF b < 0 /\ a > I32Max + b THEN (a - I32Max - 1) - (b + I32Max + 1)
    ELSE IF b > 0 /\ a < I32Min + b THEN (a + I32Max + 1) - (b - I32Max - 1)
    ELSE a - b
SaturatingSubI32(a, b) ==
    IF b < 0 /\ a > I32Max + b THEN I32Max
    ELSE IF b > 0 /\ a < I32Min + b THEN I32Min
    ELSE a - b

\* Ord::clamp(min, max) on i32 (preceded by a clamp to the half-open range)
ClampExclusiveI32(v, lo, hi) == IF v < lo THEN lo ELSE IF v >= hi THEN hi - 1 ELSE v
ClampI32(v, lo, hi) == IF v < lo THEN lo ELSE IF v > hi THEN hi ELSE v

\* `as u16` on an i32: keeps the low 16 bits
AsU16(v) == v % (U16Max + 1)

\* u16::saturating_add (preceded by the wrapping addition it is not)
WrappingAddU16(a, b) == (a + b) % (U16Max + 1)
SaturatingAddU16(a, b) == IF a + b > U16Max THEN U16Max ELSE a + b

\* u16::saturating_sub
SaturatingSubU16(a, b) == IF a < b THEN 0 ELSE a - b

\* Ord::min on u16
MinU16(a, b) == IF a < b THEN a ELSE b

----------------------------------------------------------------------------
(* impl Neg for Offset: i32 negation overflows on i32::MIN.  In a build with *)
(* overflow checks (the debug profile) the overflow panics; in a build       *)
(* without them (the release profile) it wraps to i32::MIN.                  *)

NegOverflows(o) == o.x = I32Min \/ o.y = I32Min
NegI32(v) == IF v = I32Min THEN I32Min ELSE 0 - v
OffsetNeg(o, checks) ==
    IF NegOverflows(o) /\ checks THEN Panic
    ELSE Value(Offset(NegI32(o.x), NegI32(o.y)))

(* impl Add<Offset> for Rect (preceded by two variants: one that does not   *)
(* clamp the position, one that clamps the size instead of the position)    *)
AddOffsetUnclamped(r, offset) ==
    [r EXCEPT !.x = AsU16(SaturatingAddI32(r.x, offset.x)),
              !.y = AsU16(SaturatingAddI32(r.y, offset.y))]
AddOffsetResized(r, offset) ==
    LET x == AsU16(ClampI32(SaturatingAddI32(r.x, offset.x), 0, U16Max))
        y == AsU16(ClampI32(SaturatingAddI32(r.y, offset.y), 0, U16Max))
    IN  Rect(x, y, MinU16(r.width, U16Max - x), MinU16(r.height, U16Max - y))
RectAddOffset(r, offset) ==
    LET max_x == U16Max - r.width
        max_y == U16Max - r.height
        x == AsU16(ClampI32(SaturatingAddI32(r.x, offset.x), 0, max_x))
        y == AsU16(ClampI32(SaturatingAddI32(r.y, offset.y), 0, max_y))
    IN  [r EXCEPT !.x = x, !.y = y]

(* impl Add<Rect> for Offset *)
OffsetAddRect(offset, r) == RectAddOffset(r, offset)

(* impl Sub<Offset> for Rect *)
RectSubOffset(r, offset) ==
    LET max_x == U16Max - r.width
        max_y == U16Max - r.height
        x == AsU16(ClampI32(SaturatingSubI32(r.x, offset.x), 0, max_x))
        y == AsU16(ClampI32(SaturatingSubI32(r.y, offset.y), 0, max_y))
    IN  [r EXCEPT !.x = x, !.y = y]

(* impl AddAssign<Offset> for Rect, impl SubAssign<Offset> for Rect         *)
(* (SubAssignOffsetAsAdd: the variant that adds where it should subtract)   *)
RectAddAssignOffset(r, offset) == RectAddOffset(r, offset)
SubAssignOffsetAsAdd(r, offset) == RectAddOffset(r, offset)
RectSubAssignOffset(r, offset) == RectSubOffset(r, offset)

(* impl Add<Size> for Rect *)
RectAddSize(r, size) ==
    LET max_width == U16Max - r.x
        max_height == U16Max - r.y
    IN  [r EXCEPT !.width = MinU16(SaturatingAddU16(r.width, size.width), max_width),
                  !.height = MinU16(SaturatingAddU16(r.height, size.height), max_height)]

(* impl Add<Rect> for Size *)
SizeAddRect(size, r) == RectAddSize(r, size)

(* impl Sub<Size> for Rect (preceded by a variant that also clamps the far *)
(* edge, as Add<Size> does)                                                 *)
SubSizeClamped(r, size) ==
    [r EXCEPT !.width = MinU16(SaturatingSubU16(r.width, size.width), U16Max - r.x),
              !.height = MinU16(SaturatingSubU16(r.height, size.height), U16Max - r.y)]
RectSubSize(r, size) ==
    [r EXCEPT !.width = SaturatingSubU16(r.width, size.width),
              !.height = SaturatingSubU16(r.height, size.height)]

(* impl AddAssign<Size> for Rect, impl SubAssign<Size> for Rect *)
RectAddAssignSize(r, size) == RectAddSize(r, size)
RectSubAssignSize(r, size) == RectSubSize(r, size)

----------------------------------------------------------------------------
(* Backend trait: the required methods are abstract; a call of one either   *)
(* succeeds or fails with an I/O error of the implementation's choosing     *)

ClearType == {"All", "AfterCursor", "BeforeCursor", "CurrentLine", "UntilNewLine"}

BlankScreen == [i \in 1..ScreenCells |-> " "]
Symbols == {" ", "x"}

NoResult == [none |-> TRUE]
Ok == [ok |-> TRUE]
Err(kind, msg) == [kind |-> kind, msg |-> msg]
IsErr(r) == "kind" \in DOMAIN r

\* io::Result values a required method of an implementation may return
IoResults == {Ok, Err("BrokenPipe", <<"write failed">>), Err("Other", <<"write failed">>)}

\* fn clear(&mut self): clears the whole screen when it succeeds
Clear(scr, result) == IF result = Ok THEN BlankScreen ELSE scr

\* fn clear_region(&mut self, clear_type): the default implementation.
\* clear_result is what the implementation's clear() returns if it is called.
\* (ClearRegionFallback: the variant that clears everything for every type;
\* ClearRegionUnsupportedKind: the variant that reports ErrorKind::Unsupported)
ClearRegionUnsupportedKind(clear_type, scr, clear_result) ==
    IF clear_type = "All"
    THEN [screen |-> Clear(scr, clear_result),
          calls |-> <<[method |-> "clear", result |-> clear_result]>>,
          ret |-> clear_result]
    ELSE [screen |-> scr,
          calls |-> <<>>,
          ret |-> Err("Unsupported",
                      <<"clear_type [", clear_type, "] not supported with this backend">>)]
ClearRegionFallback(clear_type, scr, clear_result) ==
    [screen |-> Clear(scr, clear_result),
     calls |-> <<[method |-> "clear", result |-> clear_result]>>,
     ret |-> clear_result]
ClearRegion(clear_type, scr, clear_result) ==
    IF clear_type = "All"
    THEN [screen |-> Clear(scr, clear_result),
          calls |-> <<[method |-> "clear", result |-> clear_result]>>,
          ret |-> clear_result]
    ELSE [screen |-> scr,
          calls |-> <<>>,
          ret |-> Err("Other",
                      <<"clear_type [", clear_type, "] not supported with this backend">>)]

----------------------------------------------------------------------------
(* Scrollbar: ScrollbarState and its navigation methods *)

\* The content lengths and viewport lengths the states are drawn from
ContentLengths == {0, 1, 2, 8, 10, 16}
ViewportLengths == {0, 1, 4}

ScrollbarState(position, content_length, viewport_content_length) ==
    [position |-> position,
     content_length |-> content_length,
     viewport_content_length |-> viewport_content_length]

ScrollbarStateDefault == ScrollbarState(0, 0, 0)

\* usize::saturating_sub(1)
SaturatingSubOne(n) == IF n = 0 THEN 0 ELSE n - 1

\* ScrollbarState::prev
ScrollbarStatePrev(st) ==
    [st EXCEPT !.position = SaturatingSubOne(st.position)]

\* (the variant of next that does not stop at the last item)
ScrollbarStateNextUnbounded(st) ==
    [st EXCEPT !.position = st.position + 1]

\* ScrollbarState::next.  saturating_add(1) differs from + 1 only at
\* usize::MAX, where the min with content_length - 1 gives the same result.
ScrollbarStateNext(st) ==
    LET last == SaturatingSubOne(st.content_length) IN
    [st EXCEPT !.position = IF st.position + 1 < last THEN st.position + 1 ELSE last]

\* ScrollbarState::first
ScrollbarStateFirst(st) == [st EXCEPT !.position = 0]

\* ScrollbarState::last
ScrollbarStateLast(st) ==
    [st EXCEPT !.position = SaturatingSubOne(st.content_length)]

ScrollDirection == {"Forward", "Backward"}

\* ScrollbarState::scroll
ScrollbarStateScroll(st, direction) ==
    IF direction = "Forward" THEN ScrollbarStateNext(st) ELSE ScrollbarStatePrev(st)

----------------------------------------------------------------------------
(* Scrollbar: the widget and its render.  The Buffer is seen through the    *)
(* buf.set_string calls render makes: each writes one one-column symbol at  *)
(* (x, y), and a later call on the same cell replaces the earlier symbol.   *)

\* A &str: its text and its str::len(), the length in bytes
Str(text, len) == [text |-> text, len |-> len]

\* The symbols of the scrollbar sets: each is one column wide and, as a
\* block or arrow character, three bytes long; " " is one byte long.
ThumbSymbol == Str("thumb", 3)
TrackSymbol == Str("track", 3)
BeginSymbol == Str("begin", 3)
EndSymbol == Str("end", 3)
Space == Str(" ", 1)

\* Option<&str>: NoArg is None, a Str is Some(str)
IsSome(o) == o # NoArg

ScrollbarOrientation ==
    {"VerticalRight", "VerticalLeft", "HorizontalBottom", "HorizontalTop"}

Scrollbar(orientation, track_symbol, begin_symbol, end_symbol) ==
    [orientation |-> orientation,
     thumb_symbol |-> ThumbSymbol,
     track_symbol |-> track_symbol,
     begin_symbol |-> begin_symbol,
     end_symbol |-> end_symbol]

\* Scrollbar::default()
ScrollbarDefault == Scrollbar("VerticalRight", TrackSymbol, BeginSymbol, EndSymbol)

is_vertical(self) == self.orientation \in {"VerticalRight", "VerticalLeft"}

\* The u16 sums of get_track_info and get_thumb_start_end stay far below
\* 65535 for the areas drawn in InitRender, so + is the u16 addition.
get_track_info(self, a) ==
    LET start0 == IF is_vertical(self) THEN a.y ELSE a.x
        len0 == IF is_vertical(self) THEN a.height ELSE a.width
        end0 == start0 + SaturatingSubU16(len0, 1)
        size1 == IF IsSome(self.begin_symbol)
                 THEN SaturatingSubU16(len0, self.begin_symbol.len) ELSE len0
        start1 == IF IsSome(self.begin_symbol)
                  THEN SaturatingAddU16(start0, 1) ELSE start0
        size2 == IF IsSome(self.end_symbol)
                 THEN SaturatingSubU16(size1, self.end_symbol.len) ELSE size1
        end2 == IF IsSome(self.end_symbol)
                THEN SaturatingSubU16(end0, 1) ELSE end0
    IN [track_start |-> start1, track_end |-> end2,
        track_size |-> size2, viewport_size |-> len0]

get_track_axis(self, a) == IF is_vertical(self) THEN a.x ELSE a.y

\* (n / d).round() for n >= 0 and d > 0: halves round away from zero
RoundDiv(n, d) == (2 * n + d) \div (2 * d)

\* f64 as u16: the cast saturates
F64AsU16(v) == IF v > U16Max THEN U16Max ELSE v

\* The two f64 products are rounded as exact quotients: for the track
\* sizes, content lengths and positions drawn in InitRender the f64 value
\* rounds to the same integer.
ThumbPosition(track_size, st) ==
    IF st.content_length = 0 THEN 0
    ELSE F64AsU16(RoundDiv(st.position * track_size, st.content_length))

ThumbSize(track_size, viewport_size, st) ==
    IF st.content_length = 0 THEN track_size
    ELSE F64AsU16(RoundDiv(viewport_size * track_size,
                           st.content_length + viewport_size))

get_thumb_start_end(self, a, st) ==
    LET t == get_track_info(self, a)
        thumb_position == ThumbPosition(t.track_size, st)
        thumb_size == ThumbSize(t.track_size, t.viewport_size, st)
        thumb_start == MinU16(t.track_start + thumb_position,
                              SaturatingSubU16(t.track_end, thumb_size))
        thumb_end == MinU16(thumb_start + thumb_size, t.track_end)
    IN [thumb_start |-> thumb_start, thumb_end |-> thumb_end]

\* buf.set_string(x, y, symbol, style) with the axis the orientation gives
SetString(self, a, i, symbol) ==
    IF is_vertical(self)
    THEN [x |-> get_track_axis(self, a), y |-> i, symbol |-> symbol]
    ELSE [x |-> i, y |-> get_track_axis(self, a), symbol |-> symbol]

\* for i in from..=to { buf.set_string(.., symbol, ..) }
SetStrings(self, a, from, to, symbol) ==
    IF from > to THEN <<>>
    ELSE [k \in 1..(to - from + 1) |-> SetString(self, a, from + k - 1, symbol)]

render_track(self, a) ==
    LET t == get_track_info(self, a) IN
    IF IsSome(self.track_symbol)
    THEN SetStrings(self, a, t.track_start, t.track_end, self.track_symbol)
    ELSE <<>>

render_thumb(self, a, st) ==
    LET th == get_thumb_start_end(self, a, st) IN
    SetStrings(self, a, th.thumb_start, th.thumb_end, self.thumb_symbol)

\* (the variant of render_arrowheads that puts the arrows on the two ends of
\* the track instead of next to them)
render_arrowheads_on_track(self, a) ==
    LET t == get_track_info(self, a) IN
    (IF IsSome(self.begin_symbol)
     THEN <<SetString(self, a, t.track_start, self.begin_symbol)>>
     ELSE <<>>)
    \o
    (IF IsSome(self.end_symbol)
     THEN <<SetString(self, a, t.track_end, self.end_symbol)>>
     ELSE <<>>)

render_arrowheads(self, a) ==
    LET t == get_track_info(self, a) IN
    (IF IsSome(self.begin_symbol)
     THEN <<SetString(self, a, SaturatingSubU16(t.track_start, 1), self.begin_symbol)>>
     ELSE <<>>)
    \o
    (IF IsSome(self.end_symbol)
     THEN <<SetString(self, a, SaturatingAddU16(t.track_end, 1), self.end_symbol)>>
     ELSE <<>>)

\* StatefulWidget::render: the set_string calls in the order they are made
render(self, a, st) ==
    render_track(self, a) \o render_thumb(self, a, st) \o render_arrowheads(self, a)

----------------------------------------------------------------------------
(* Geometry state machine: one action per operator *)

PipelineIdle ==
    /\ terminal = NoArg
    /\ app = NoArg

ScrollbarIdle ==
    /\ state = ScrollbarStateDefault
    /\ prior = ScrollbarStateDefault
    /\ scrollbar = NoArg
    /\ area = Rect(0, 0, 0, 0)
    /\ writes = <<>>
    /\ nsteps = 0

BackendIdle ==
    /\ screen = BlankScreen
    /\ cursor = 1
    /\ calls = <<>>
    /\ ret = NoResult
    /\ before = [screen |-> BlankScreen, cursor |-> 1]
    /\ bsteps = 0

InitGeom(rects) ==
    /\ rect \in rects
    /\ prev = rect
    /\ op = "init"
    /\ arg = NoArg
    /\ out = Value(rect)
    /\ steps = 0
    /\ BackendIdle
    /\ ScrollbarIdle
    /\ PipelineIdle

\* The Rect fields are public: any four u16 values make a Rect
Init == InitGeom(Rects)

\* Rects that respect the far-edge invariant
InitFarEdge == InitGeom({r \in Rects : FarEdgeOK(r)})

Applied(name, r, operand, result) ==
    /\ steps < MaxSteps
    /\ steps' = steps + 1
    /\ op' = name
    /\ prev' = r
    /\ arg' = operand
    /\ rect' = result
    /\ out' = Value(result)
    /\ UNCHANGED backendVars
    /\ UNCHANGED scrollVars
    /\ UNCHANGED pipelineVars

AddOffset == \E o \in Offsets : Applied("Rect+Offset", rect, o, RectAddOffset(rect, o))
AddRectToOffset == \E o \in Offsets : Applied("Offset+Rect", rect, o, OffsetAddRect(o, rect))
SubOffset == \E o \in Offsets : Applied("Rect-Offset", rect, o, RectSubOffset(rect, o))
AddAssignOffset == \E o \in Offsets : Applied("Rect+=Offset", rect, o, RectAddAssignOffset(rect, o))
SubAssignOffset == \E o \in Offsets : Applied("Rect-=Offset", rect, o, RectSubAssignOffset(rect, o))
AddSize == \E s \in Sizes : Applied("Rect+Size", rect, s, RectAddSize(rect, s))
AddRectToSize == \E s \in Sizes : Applied("Size+Rect", rect, s, SizeAddRect(s, rect))
SubSize == \E s \in Sizes : Applied("Rect-Size", rect, s, RectSubSize(rect, s))
AddAssignSize == \E s \in Sizes : Applied("Rect+=Size", rect, s, RectAddAssignSize(rect, s))
SubAssignSize == \E s \in Sizes : Applied("Rect-=Size", rect, s, RectSubAssignSize(rect, s))

\* -offset: the Rect is not involved
Neg ==
    \E o \in Offsets, overflow_checks \in BOOLEAN :
        /\ steps < MaxSteps
        /\ steps' = steps + 1
        /\ op' = "-Offset"
        /\ prev' = rect
        /\ arg' = o
        /\ out' = OffsetNeg(o, overflow_checks)
        /\ UNCHANGED <<rect, screen, cursor, calls, ret, before, bsteps>>
        /\ UNCHANGED scrollVars
        /\ UNCHANGED pipelineVars

\* rect - (-offset): the negation is evaluated first and may panic
SubNegOffset ==
    \E o \in Offsets, overflow_checks \in BOOLEAN :
        LET n == OffsetNeg(o, overflow_checks) IN
        /\ steps < MaxSteps
        /\ steps' = steps + 1
        /\ op' = "Rect-(-Offset)"
        /\ prev' = rect
        /\ arg' = o
        /\ IF n = Panic
           THEN rect' = rect /\ out' = Panic
           ELSE rect' = RectSubOffset(rect, n.value) /\ out' = Value(rect')
        /\ UNCHANGED backendVars
        /\ UNCHANGED scrollVars
        /\ UNCHANGED pipelineVars

Next ==
    \/ AddOffset
    \/ AddRectToOffset
    \/ SubOffset
    \/ AddAssignOffset
    \/ SubAssignOffset
    \/ AddSize
    \/ AddRectToSize
    \/ SubSize
    \/ AddAssignSize
    \/ SubAssignSize
    \/ Neg
    \/ SubNegOffset

Spec == Init /\ [][Next]_vars
SpecFarEdge == InitFarEdge /\ [][Next]_vars

----------------------------------------------------------------------------
(* Backend state machine: one action per trait method a caller invokes *)

GeomIdle ==
    /\ rect = TestRect
    /\ prev = TestRect
    /\ out = Value(TestRect)
    /\ steps = 0

InitBackend ==
    /\ GeomIdle
    /\ op = "init"
    /\ arg = NoArg
    /\ BackendIdle
    /\ ScrollbarIdle
    /\ PipelineIdle

Called(name, operand) ==
    /\ bsteps < MaxCalls
    /\ bsteps' = bsteps + 1
    /\ op' = name
    /\ arg' = operand
    /\ before' = [screen |-> screen, cursor |-> cursor]
    /\ UNCHANGED <<rect, prev, out, steps>>
    /\ UNCHANGED scrollVars
    /\ UNCHANGED pipelineVars

\* backend.draw(content): one cell of content, written when the call succeeds
BackendDraw ==
    \E i \in 1..ScreenCells, sym \in Symbols, result \in IoResults :
        /\ Called("draw", <<i, sym>>)
        /\ screen' = IF result = Ok THEN [screen EXCEPT ![i] = sym] ELSE screen
        /\ calls' = <<>>
        /\ ret' = result
        /\ UNCHANGED cursor

\* backend.set_cursor(x, y)
BackendSetCursor ==
    \E i \in 1..ScreenCells, result \in IoResults :
        /\ Called("set_cursor", i)
        /\ cursor' = IF result = Ok THEN i ELSE cursor
        /\ calls' = <<>>
        /\ ret' = result
        /\ UNCHANGED screen

\* backend.clear()
BackendClear ==
    \E result \in IoResults :
        /\ Called("clear", NoArg)
        /\ screen' = Clear(screen, result)
        /\ calls' = <<>>
        /\ ret' = result
        /\ UNCHANGED cursor

\* backend.clear_region(clear_type)
BackendClearRegion ==
    \E clear_type \in ClearType, clear_result \in IoResults :
        LET r == ClearRegion(clear_type, screen, clear_result) IN
        /\ Called("clear_region", clear_type)
        /\ screen' = r.screen
        /\ calls' = r.calls
        /\ ret' = r.ret
        /\ UNCHANGED cursor

NextBackend ==
    \/ BackendDraw
    \/ BackendSetCursor
    \/ BackendClear
    \/ BackendClearRegion

SpecBackend == InitBackend /\ [][NextBackend]_vars

----------------------------------------------------------------------------
(* ScrollbarState machine: one action per navigation method *)

WidgetIdle ==
    /\ scrollbar = NoArg
    /\ area = Rect(0, 0, 0, 0)
    /\ writes = <<>>

\* A state whose position is on an item (or 0 when there is none)
InitScrollbarState ==
    /\ GeomIdle
    /\ BackendIdle
    /\ WidgetIdle
    /\ PipelineIdle
    /\ op = "init"
    /\ arg = NoArg
    /\ \E cl \in ContentLengths, vp \in ViewportLengths :
           \E p \in 0..SaturatingSubOne(cl) :
               state = ScrollbarState(p, cl, vp)
    /\ prior = state
    /\ nsteps = 0

Scrolled(name, operand, result) ==
    /\ nsteps < MaxScrolls
    /\ nsteps' = nsteps + 1
    /\ op' = name
    /\ arg' = operand
    /\ prior' = state
    /\ state' = result
    /\ UNCHANGED <<scrollbar, area, writes>>
    /\ UNCHANGED <<rect, prev, out, steps>>
    /\ UNCHANGED backendVars
    /\ UNCHANGED pipelineVars

StatePrev == Scrolled("prev", NoArg, ScrollbarStatePrev(state))
StateNext == Scrolled("next", NoArg, ScrollbarStateNext(state))
StateFirst == Scrolled("first", NoArg, ScrollbarStateFirst(state))
StateLast == Scrolled("last", NoArg, ScrollbarStateLast(state))
StateScroll ==
    \E direction \in ScrollDirection :
        Scrolled("scroll", direction, ScrollbarStateScroll(state, direction))

NextScrollbarState ==
    \/ StatePrev
    \/ StateNext
    \/ StateFirst
    \/ StateLast
    \/ StateScroll

SpecScrollbarState == InitScrollbarState /\ [][NextScrollbarState]_vars

----------------------------------------------------------------------------
(* Scrollbar render machine: a widget, an area and a state, then render *)

\* The begin and end symbols a widget is built with
ArrowPairs ==
    {<<NoArg, NoArg>>, <<Space, Space>>, <<BeginSymbol, EndSymbol>>,
     <<BeginSymbol, NoArg>>, <<NoArg, EndSymbol>>}

Scrollbars ==
    {Scrollbar(o, t, ap[1], ap[2]) :
        o \in ScrollbarOrientation, t \in {NoArg, TrackSymbol}, ap \in ArrowPairs}

\* Areas one cell across, 0..MaxLen cells along the scrollbar's axis
Areas(self) ==
    {IF is_vertical(self) THEN Rect(org[1], org[2], 1, len)
                          ELSE Rect(org[1], org[2], len, 1) :
        org \in {<<0, 0>>, <<1, 2>>}, len \in 0..MaxLen}

\* The position is set freely: it may lie past the content
InitRender ==
    /\ GeomIdle
    /\ BackendIdle
    /\ PipelineIdle
    /\ op = "init"
    /\ arg = NoArg
    /\ scrollbar \in Scrollbars
    /\ area \in Areas(scrollbar)
    /\ \E cl \in ContentLengths, vp \in ViewportLengths :
           \E p \in 0..(cl + 1) :
               state = ScrollbarState(p, cl, vp)
    /\ prior = state
    /\ writes = <<>>
    /\ nsteps = 0

\* scrollbar.render(area, buf, &mut state)
Render ==
    /\ op = "init"
    /\ op' = "render"
    /\ arg' = NoArg
    /\ writes' = render(scrollbar, area, state)
    /\ prior' = state
    /\ UNCHANGED <<state, scrollbar, area, nsteps>>
    /\ UNCHANGED <<rect, prev, out, steps>>
    /\ UNCHANGED backendVars
    /\ UNCHANGED pipelineVars

NextRender == Render

SpecRender == InitRender /\ [][NextRender]_vars

----------------------------------------------------------------------------
(* Properties of the geometry operators *)

\* x + d and x - d over the integers, clamped to lo = 0 and hi, written
\* without any intermediate value outside the i32 range
ShiftClamped(x, d, hi) == IF d < 0 - x THEN 0 ELSE IF d > hi - x THEN hi ELSE x + d
ShiftBackClamped(x, d, hi) == IF d > x THEN 0 ELSE IF d < x - hi THEN hi ELSE x - d
MinInt(a, b) == IF a < b THEN a ELSE b
MaxInt(a, b) == IF a > b THEN a ELSE b

\* C1: r + o and r - o keep width and height and set x to
\* clamp(x +/- dx, 0, 65535 - width), y to clamp(y +/- dy, 0, 65535 - height);
\* the result never wraps around.
C1_OffsetTranslation ==
    /\ op = "Rect+Offset" =>
        /\ rect.width = prev.width /\ rect.height = prev.height
        /\ rect.x = ShiftClamped(prev.x, arg.x, U16Max - prev.width)
        /\ rect.y = ShiftClamped(prev.y, arg.y, U16Max - prev.height)
        /\ rect.x \in 0..(U16Max - prev.width)
        /\ rect.y \in 0..(U16Max - prev.height)
    /\ op = "Rect-Offset" =>
        /\ rect.width = prev.width /\ rect.height = prev.height
        /\ rect.x = ShiftBackClamped(prev.x, arg.x, U16Max - prev.width)
        /\ rect.y = ShiftBackClamped(prev.y, arg.y, U16Max - prev.height)
        /\ rect.x \in 0..(U16Max - prev.width)
        /\ rect.y \in 0..(U16Max - prev.height)

\* C1 witness: a subtraction whose x saturates in i32 and then clamps at the
\* far edge, while its y moves by one without clamping
C1_Witness ==
    /\ op = "Rect-Offset"
    /\ arg = Offset(I32Min, 1)
    /\ prev = Rect(U16Max - 1, 1, 1, U16Max - 1)
    /\ rect = Rect(U16Max - 1, 0, 1, U16Max - 1)

\* C2: starting from a Rect with x + width <= 65535 and y + height <= 65535,
\* every sequence of +Offset, -Offset, +Size, -Size (and the in-place forms)
\* leaves x + width <= 65535 and y + height <= 65535.
C2_FarEdgeInvariant == FarEdgeOK(rect)

\* C2 witness: a second operator has been applied, growing the Rect to the
\* far edge after a translation
C2_Witness ==
    /\ steps = MaxSteps
    /\ op = "Rect+=Size"
    /\ arg = Size(1, 2)
    /\ prev.x > 1 /\ prev.x < U16Max - 1
    /\ rect.x + rect.width = U16Max
    /\ rect.width > prev.width

\* C3 as stated: for every Rect, also one whose far edge exceeds 65535,
\* r + Offset::ZERO = r and r - Offset::ZERO = r.
C3_ZeroOffsetAnyRect ==
    (op \in {"Rect+Offset", "Rect-Offset"} /\ arg = OffsetZERO) => rect = prev

\* C3 amended: for every Rect with x + width <= 65535 and y + height <= 65535,
\* r + Offset::ZERO = r and r - Offset::ZERO = r.
C3_ZeroOffsetFarEdge ==
    (op \in {"Rect+Offset", "Rect-Offset"} /\ arg = OffsetZERO /\ FarEdgeOK(prev))
        => rect = prev

\* C3 witness: Offset::ZERO subtracted from a Rect that touches the far edge
C3_Witness ==
    /\ op = "Rect-Offset"
    /\ arg = OffsetZERO
    /\ prev = Rect(U16Max - 1, U16Max, 1, 0)
    /\ rect = prev

\* C4 as stated: for every Rect, also one whose far edge exceeds 65535,
\* r + Size::ZERO = r and r - Size::ZERO = r.
C4_ZeroSizeAnyRect ==
    (op \in {"Rect+Size", "Rect-Size"} /\ arg = SizeZERO) => rect = prev

\* C4 amended: r - Size::ZERO = r for every Rect, and r + Size::ZERO = r for
\* every Rect with x + width <= 65535 and y + height <= 65535.
C4_ZeroSizeFarEdge ==
    /\ (op = "Rect-Size" /\ arg = SizeZERO) => rect = prev
    /\ (op = "Rect+Size" /\ arg = SizeZERO /\ FarEdgeOK(prev)) => rect = prev

\* C4 witness: Size::ZERO added to a Rect that touches the far edge
C4_Witness ==
    /\ op = "Rect+Size"
    /\ arg = SizeZERO
    /\ prev = Rect(U16Max - 1, U16Max, 1, 0)
    /\ rect = prev

\* C5: r + Offset::MIN has x = 0, y = 0; r + Offset::MAX has
\* x = 65535 - width, y = 65535 - height; r - Offset::MAX has x = 0, y = 0;
\* r - (-Offset::MAX) has x = 65535 - width, y = 65535 - height; width and
\* height are unchanged.  Rect(3,4,5,6) + Offset::MIN = Rect(0,0,5,6) and
\* Rect(3,4,5,6) + Offset::MAX = Rect(65530,65529,5,6).
C5_Saturation ==
    LET atOrigin == Rect(0, 0, prev.width, prev.height)
        atFarEdge == Rect(U16Max - prev.width, U16Max - prev.height,
                          prev.width, prev.height)
    IN  /\ (op = "Rect+Offset" /\ arg = OffsetMIN) => rect = atOrigin
        /\ (op = "Rect+Offset" /\ arg = OffsetMAX) => rect = atFarEdge
        /\ (op = "Rect-Offset" /\ arg = OffsetMAX) => rect = atOrigin
        /\ (op = "Rect-Offset" /\ arg = Offset(0 - I32Max, 0 - I32Max)) => rect = atFarEdge
        /\ (op = "Rect-(-Offset)" /\ arg = OffsetMAX) => rect = atFarEdge
        /\ (op = "Rect+Offset" /\ arg = OffsetMIN /\ prev = TestRect)
               => rect = Rect(0, 0, 5, 6)
        /\ (op = "Rect+Offset" /\ arg = OffsetMAX /\ prev = TestRect)
               => rect = Rect(65530, 65529, 5, 6)

\* C5 witness: Rect(3,4,5,6) + Offset::MAX
C5_Witness ==
    /\ op = "Rect+Offset"
    /\ arg = OffsetMAX
    /\ prev = TestRect
    /\ rect = Rect(65530, 65529, 5, 6)

\* C6: -o panics exactly when o.x or o.y is i32::MIN and otherwise returns
\* (-o.x, -o.y); every Rect +/- Offset and Rect +/- Size completes without
\* panic.
C6_NegPanicsExactlyOnMin ==
    /\ op = "-Offset" =>
        /\ (out = Panic) <=> NegOverflows(arg)
        /\ ~NegOverflows(arg) => out = Value(Offset(0 - arg.x, 0 - arg.y))
    /\ op \in {"Rect+Offset", "Offset+Rect", "Rect-Offset", "Rect+=Offset",
               "Rect-=Offset", "Rect+Size", "Size+Rect", "Rect-Size",
               "Rect+=Size", "Rect-=Size"} => out # Panic

\* C7: r + s keeps x, y and sets width = min(width + s.width, 65535 - x),
\* height = min(height + s.height, 65535 - y), the sum saturating at 65535
\* first; r - s keeps x, y and sets width = max(width - s.width, 0),
\* height = max(height - s.height, 0); r + Size::MAX has its far edge at
\* 65535 and r - Size::MAX has width 0 and height 0.
C7_SizeResize ==
    /\ op = "Rect+Size" =>
        /\ rect.x = prev.x /\ rect.y = prev.y
        /\ rect.width = MinInt(MinInt(prev.width + arg.width, U16Max), U16Max - prev.x)
        /\ rect.height = MinInt(MinInt(prev.height + arg.height, U16Max), U16Max - prev.y)
        /\ arg = SizeMAX =>
               rect.x + rect.width = U16Max /\ rect.y + rect.height = U16Max
    /\ op = "Rect-Size" =>
        /\ rect.x = prev.x /\ rect.y = prev.y
        /\ rect.width = MaxInt(prev.width - arg.width, 0)
        /\ rect.height = MaxInt(prev.height - arg.height, 0)
        /\ arg = SizeMAX => rect.width = 0 /\ rect.height = 0

\* C7 witness: Rect(3,4,5,6) + Size::MAX
C7_Witness ==
    /\ op = "Rect+Size"
    /\ arg = SizeMAX
    /\ prev = TestRect
    /\ rect = Rect(3, 4, U16Max - 3, U16Max - 4)

\* C8: r += o, r -= o, r += s, r -= s leave r equal to r + o, r - o, r + s,
\* r - s; o + r = r + o and s + r = r + s.
C8_AssignAndReversedAgree ==
    /\ op = "Rect+=Offset" => rect = RectAddOffset(prev, arg)
    /\ op = "Rect-=Offset" => rect = RectSubOffset(prev, arg)
    /\ op = "Rect+=Size" => rect = RectAddSize(prev, arg)
    /\ op = "Rect-=Size" => rect = RectSubSize(prev, arg)
    /\ op = "Offset+Rect" => rect = RectAddOffset(prev, arg)
    /\ op = "Size+Rect" => rect = RectAddSize(prev, arg)

\* C8 witness: Rect(3,4,5,6) -= Offset(1, 2)
C8_Witness ==
    /\ op = "Rect-=Offset"
    /\ arg = Offset(1, 2)
    /\ prev = TestRect
    /\ rect = Rect(2, 2, 5, 6)

\* C9: Rect + Offset and Rect - Offset never change width or height;
\* Rect + Size and Rect - Size never change x or y.
C9_Frame ==
    /\ op \in {"Rect+Offset", "Rect-Offset"} =>
        rect.width = prev.width /\ rect.height = prev.height
    /\ op \in {"Rect+Size", "Rect-Size"} =>
        rect.x = prev.x /\ rect.y = prev.y

\* C9 witness: a translation that clamps, applied to a Rect whose far edge
\* lies beyond 65535
C9_Witness ==
    /\ op = "Rect+Offset"
    /\ arg = Offset(1, 2)
    /\ prev = Rect(U16Max, U16Max, U16Max, 1)
    /\ rect = Rect(0, U16Max - 1, U16Max, 1)

----------------------------------------------------------------------------
(* Properties of the backend *)

\* C10: the default clear_region calls clear() exactly once and returns its
\* result when clear_type is All; for every other ClearType it returns an
\* error, calls no backend method and leaves the screen unchanged.
C10_ClearRegionDefault ==
    op = "clear_region" =>
        IF arg = "All"
        THEN /\ Len(calls) = 1
             /\ calls[1].method = "clear"
             /\ ret = calls[1].result
        ELSE /\ IsErr(ret)
             /\ calls = <<>>
             /\ screen = before.screen
             /\ cursor = before.cursor

\* C10 witness: clear_region(CurrentLine) on a screen that shows content
C10_Witness ==
    /\ op = "clear_region"
    /\ arg = "CurrentLine"
    /\ IsErr(ret)
    /\ screen # BlankScreen

\* C11 as stated: the error clear_region returns for an unsupported ClearType
\* is a typed failure distinct from I/O errors: no error a failing
\* clear()/write/flush returns has its kind.
C11_UnsupportedDistinctFromIo ==
    (op = "clear_region" /\ arg # "All") =>
        \A r \in IoResults : IsErr(r) => r.kind # ret.kind

\* C11 amended: the error clear_region returns for an unsupported ClearType
\* is an io::Error of kind Other, the type and kind an I/O failure can have;
\* what tells it apart is its message, which names the ClearType, and the
\* screen is left as it was, so a full clear can still follow.
C11_UnsupportedIsIoErrorOther ==
    (op = "clear_region" /\ arg # "All") =>
        /\ ret = Err("Other", <<"clear_type [", arg, "] not supported with this backend">>)
        /\ \E r \in IoResults : IsErr(r) /\ r.kind = ret.kind
        /\ screen = before.screen

\* C11 witness: clear_region(AfterCursor) as the second call of a behaviour
C11_Witness ==
    /\ op = "clear_region"
    /\ arg = "AfterCursor"
    /\ IsErr(ret)
    /\ ret.kind = "Other"
    /\ bsteps = 2

\* C12: from a position <= max(content_length - 1, 0), after any sequence of
\* next, prev, first, last and scroll the position stays within
\* 0..max(content_length - 1, 0); prev at 0 stays at 0, next at the last item
\* leaves the position unchanged, first sets 0, last sets
\* max(content_length - 1, 0); content_length and viewport_content_length
\* never change.
C12_PositionBounds ==
    LET last == MaxInt(state.content_length - 1, 0)
        back == op = "prev" \/ (op = "scroll" /\ arg = "Backward")
        forth == op = "next" \/ (op = "scroll" /\ arg = "Forward")
    IN
    /\ 0 <= state.position
    /\ state.position <= last
    /\ (back /\ prior.position = 0) => state.position = 0
    /\ (back /\ prior.position > 0) => state.position = prior.position - 1
    /\ (forth /\ prior.position = last) => state.position = prior.position
    /\ (forth /\ prior.position < last) => state.position = prior.position + 1
    /\ op = "first" => state.position = 0
    /\ op = "last" => state.position = last
    /\ state.content_length = prior.content_length
    /\ state.viewport_content_length = prior.viewport_content_length

\* C12 witness: scroll(Forward) on the last of 8 items, as the third call
C12_Witness ==
    /\ op = "scroll"
    /\ arg = "Forward"
    /\ prior.position = 7
    /\ state.position = 7
    /\ state.content_length = 8
    /\ nsteps = 3

----------------------------------------------------------------------------
(* The buffer after render, read along the scrollbar's axis *)

Along(w) == IF is_vertical(scrollbar) THEN w.y ELSE w.x
Across(w) == IF is_vertical(scrollbar) THEN w.x ELSE w.y
AxisStart == IF is_vertical(scrollbar) THEN area.y ELSE area.x
AxisLen == IF is_vertical(scrollbar) THEN area.height ELSE area.width

\* The cells of the area along the axis, first to last
AreaCells == {AxisStart + k : k \in 0..(AxisLen - 1)}

\* The cells the set_string calls ws were made on
WrittenIn(ws) == {Along(ws[k]) : k \in DOMAIN ws}
Written == WrittenIn(writes)

\* The symbol a written cell ends up with: that of the last call on it
FinalIn(ws, i) ==
    LET ks == {k \in DOMAIN ws : Along(ws[k]) = i}
        k == CHOOSE m \in ks : \A n \in ks : n <= m
    IN ws[k].symbol
Final(i) == FinalIn(writes, i)

ThumbCellsIn(ws) == {i \in WrittenIn(ws) : FinalIn(ws, i) = scrollbar.thumb_symbol}
ThumbCells == ThumbCellsIn(writes)
TrackCells == {i \in Written : Final(i) = scrollbar.track_symbol}

MinOf(S) == CHOOSE m \in S : \A n \in S : m <= n
MaxOf(S) == CHOOSE m \in S : \A n \in S : n <= m

\* The track: the cells of the area between the arrow cells
FirstTrackCell == AxisStart + (IF IsSome(scrollbar.begin_symbol) THEN 1 ELSE 0)
LastTrackCell == AxisStart + AxisLen - 1 - (IF IsSome(scrollbar.end_symbol) THEN 1 ELSE 0)
TrackLen == LastTrackCell - FirstTrackCell + 1

NoArrows == scrollbar.begin_symbol = NoArg /\ scrollbar.end_symbol = NoArg
BothArrows == IsSome(scrollbar.begin_symbol) /\ IsSome(scrollbar.end_symbol)

\* The k-th to the l-th cell of the area along the axis, counted from 1
CellsFromTo(k, l) == {AxisStart + j - 1 : j \in k..l}

\* C13: with content length 10, a track of 10 cells (no begin/end symbols,
\* viewport length defaulted) and position 5, the thumb lies in the middle
\* of the track: it fills the 4th to the 8th cell, as
\* test_rendering_thumb_half expects, and reaches neither end of the track.
C13_ThumbInMiddle ==
    (/\ op = "render"
     /\ NoArrows
     /\ AxisLen = 10
     /\ state = ScrollbarState(5, 10, 0))
    => ThumbCells = CellsFromTo(4, 8)

\* C14: for every track length >= 1 and content_length >= 1, position 0 puts
\* the first thumb cell on the first track cell, and every position
\* >= content_length - 1 puts the last thumb cell on the last track cell.
C14_ThumbAtEnds ==
    (/\ op = "render"
     /\ TrackLen >= 1
     /\ state.content_length >= 1)
    => /\ state.position = 0 =>
            ThumbCells # {} /\ MinOf(ThumbCells) = FirstTrackCell
       /\ state.position >= state.content_length - 1 =>
            ThumbCells # {} /\ MaxOf(ThumbCells) = LastTrackCell

\* C15: the number of thumb cells does not depend on the position (it is the
\* number position 0 gives), and with content_length equal to a track of 10
\* cells (no arrows, viewport length defaulted) the thumb covers 5 cells.
C15_ThumbLength ==
    op = "render" =>
        /\ Cardinality(ThumbCells) =
               Cardinality(ThumbCellsIn(
                   render(scrollbar, area, [state EXCEPT !.position = 0])))
        /\ (/\ NoArrows
            /\ AxisLen = 10
            /\ state.content_length = 10
            /\ state.viewport_content_length = 0)
           => Cardinality(ThumbCells) = 5

\* C16: with content_length zero (the default) the Scrollbar does not render:
\* render writes no cell of the buffer, with or without begin/end symbols.
C16_NoRenderWithoutContent ==
    (op = "render" /\ state.content_length = 0) => writes = <<>>

\* C17: when the area has length 0 along the scroll axis, or begin and end
\* symbols are both set and the area is shorter than 3 cells along the axis,
\* render writes no cell at all and nothing outside the area.
C17_DegenerateAreas ==
    (/\ op = "render"
     /\ \/ AxisLen = 0
        \/ BothArrows /\ AxisLen < 3)
    => /\ writes = <<>>
       /\ Written \subseteq AreaCells

\* C18: on an 8-cell horizontal scrollbar with arrows and content_length 16,
\* viewport_content_length 1 gives a one-cell thumb and
\* viewport_content_length 4 a two-cell thumb.
C18_ViewportContentLength ==
    (/\ op = "render"
     /\ ~is_vertical(scrollbar)
     /\ scrollbar.begin_symbol = BeginSymbol
     /\ scrollbar.end_symbol = EndSymbol
     /\ AxisLen = 8
     /\ state.content_length = 16)
    => /\ state.viewport_content_length = 1 => Cardinality(ThumbCells) = 1
       /\ state.viewport_content_length = 4 => Cardinality(ThumbCells) = 2

----------------------------------------------------------------------------
(* Offset round trip *)

\* The offset moves the Rect without reaching the clamp: the Rect has its far
\* edge within 65535 and the moved position stays within 0..65535 - size
AwayFromClamp(r, o) ==
    /\ FarEdgeOK(r)
    /\ o.x >= 0 - r.x
    /\ o.x <= U16Max - r.width - r.x
    /\ o.y >= 0 - r.y
    /\ o.y <= U16Max - r.height - r.y

\* C23: for every Rect r with x + width <= 65535 and y + height <= 65535 and
\* every Offset o with 0 <= x + dx <= 65535 - width and
\* 0 <= y + dy <= 65535 - height, (r + o) - o = r and r - (-o) = r + o.
C23_OffsetRoundTrip ==
    /\ (op = "Rect+Offset" /\ AwayFromClamp(prev, arg)) =>
           /\ rect = Rect(prev.x + arg.x, prev.y + arg.y, prev.width, prev.height)
           /\ RectSubOffset(rect, arg) = prev
    /\ (op = "Rect-(-Offset)" /\ AwayFromClamp(prev, arg)) =>
           out = Value(RectAddOffset(prev, arg))

\* C23 witness: a Rect next to the far edge moved back by (-1, -2)
C23_Witness ==
    /\ op = "Rect+Offset"
    /\ arg = Offset(-1, -2)
    /\ prev = Rect(1, U16Max - 1, 1, 1)
    /\ rect = Rect(0, U16Max - 3, 1, 1)
    /\ RectSubOffset(rect, arg) = prev

\* The cells render_thumb called set_string on
ThumbWrites == {Along(writes[k]) : k \in {j \in DOMAIN writes :
                                            writes[j].symbol = scrollbar.thumb_symbol}}

\* C22: for every area, every content_length >= 1 and every position, every
\* cell written by render_thumb lies between the first and the last track
\* cell inclusive, so the thumb is never written outside the track or
\* outside the area.
C22_ThumbInsideTrack ==
    (op = "render" /\ state.content_length >= 1) =>
        /\ \A i \in ThumbWrites : FirstTrackCell <= i /\ i <= LastTrackCell
        /\ ThumbWrites \subseteq AreaCells

----------------------------------------------------------------------------
(* examples/minimal.rs: main and the run loop.  app.pc is the statement     *)
(* about to execute: "main" (ratatui::init and the call of run), "draw"     *)
(* (terminal.draw), "read" (event::read), "returned" (run has returned,     *)
(* ratatui::restore is next), "restored" (main is about to return           *)
(* app_result), "exited".                                                   *)

\* event::read()?: an io::Error, or an Event
KeyEventKind == {"Press", "Repeat", "Release"}
KeyCodes == {"q", "x"}
KeyEvent(kind, code) == [key |-> [kind |-> kind, code |-> code]]
Events == {KeyEvent(k, c) : k \in KeyEventKind, c \in KeyCodes} \cup {[other |-> "Resize"]}
OkEvent(e) == [ok |-> TRUE, event |-> e]
ReadResults == {OkEvent(e) : e \in Events} \cup {r \in IoResults : IsErr(r)}

\* if let Event::Key(key) = .. { if key.kind == Press && key.code == Char('q') ..
IsQuit(e) == "key" \in DOMAIN e /\ e.key.kind = "Press" /\ e.key.code = "q"

\* (the variant of the ? after terminal.draw that draws again on a failure)
RunAfterDrawRetry(result) ==
    IF IsErr(result) THEN [pc |-> "draw", app_result |-> NoResult]
    ELSE [pc |-> "read", app_result |-> NoResult]

\* terminal.draw(..)?: an Err returns from run, an Ok goes on to event::read
RunAfterDraw(result) ==
    IF IsErr(result) THEN [pc |-> "returned", app_result |-> result]
    ELSE [pc |-> "read", app_result |-> NoResult]

\* event::read()? and the two ifs: an Err returns from run, a 'q' press
\* returns Ok(()), anything else loops
RunAfterRead(result) ==
    IF IsErr(result) THEN [pc |-> "returned", app_result |-> result]
    ELSE IF IsQuit(result.event) THEN [pc |-> "returned", app_result |-> Ok]
    ELSE [pc |-> "draw", app_result |-> NoResult]

InitMinimal ==
    /\ GeomIdle
    /\ BackendIdle
    /\ ScrollbarIdle
    /\ op = "init"
    /\ arg = NoArg
    /\ terminal = NoArg
    /\ app = [pc |-> "main", draws |-> 0, reads |-> 0, restores |-> 0,
              last |-> "none", io |-> NoResult, events |-> <<>>,
              app_result |-> NoResult, exit |-> NoResult]

AppStep(name) ==
    /\ op' = name
    /\ arg' = NoArg
    /\ UNCHANGED <<rect, prev, out, steps>>
    /\ UNCHANGED backendVars
    /\ UNCHANGED scrollVars
    /\ UNCHANGED terminal

\* let terminal = ratatui::init(); run(terminal) is entered
MainInit ==
    /\ app.pc = "main"
    /\ app' = [app EXCEPT !.pc = "draw"]
    /\ AppStep("init")

\* terminal.draw(|frame| ..)?
RunDraw ==
    \E result \in IoResults :
        LET after == RunAfterDraw(result) IN
        /\ app.pc = "draw"
        /\ app.draws < MaxFrames
        /\ app' = [app EXCEPT !.pc = after.pc, !.app_result = after.app_result,
                              !.draws = @ + 1, !.last = "draw", !.io = result]
        /\ AppStep("draw")

\* if let Event::Key(key) = event::read()? { .. }
RunRead ==
    \E result \in ReadResults :
        LET after == RunAfterRead(result) IN
        /\ app.pc = "read"
        /\ app' = [app EXCEPT !.pc = after.pc, !.app_result = after.app_result,
                              !.reads = @ + 1, !.last = "read", !.io = result,
                              !.events = Append(@, result)]
        /\ AppStep("read")

\* ratatui::restore();
MainRestore ==
    /\ app.pc = "returned"
    /\ app' = [app EXCEPT !.pc = "restored", !.restores = @ + 1]
    /\ AppStep("restore")

\* app_result
MainReturn ==
    /\ app.pc = "restored"
    /\ app' = [app EXCEPT !.pc = "exited", !.exit = app.app_result]
    /\ AppStep("return")

NextMinimal ==
    \/ MainInit
    \/ RunDraw
    \/ RunRead
    \/ MainRestore
    \/ MainReturn

SpecMinimal == InitMinimal /\ [][NextMinimal]_vars

\* run has returned
RunOver == app.pc \in {"returned", "restored", "exited"}

\* C24: each loop iteration draws one frame and then reads one event; a
\* failure of draw or of the event read is returned at once, unmodified, with
\* no retry and no further draw; a 'q' key press ends the loop with Ok; and
\* main calls ratatui::restore() exactly once after run returns and before
\* it returns run's result.
C24_RunLoop ==
    /\ app.pc = "draw" => app.draws = app.reads
    /\ app.pc = "read" => app.draws = app.reads + 1 /\ app.io = Ok
    /\ app.last = "draw" /\ RunOver => app.draws = app.reads + 1
    /\ app.last = "read" /\ RunOver => app.draws = app.reads
    /\ IsErr(app.io) => RunOver /\ app.app_result = app.io
    /\ (app.last = "read" /\ ~IsErr(app.io) /\ IsQuit(app.io.event)) =>
           RunOver /\ app.app_result = Ok
    /\ RunOver =>
           \/ IsErr(app.io)
           \/ app.last = "read" /\ IsQuit(app.io.event)
    /\ \A i \in 1..(Len(app.events) - 1) :
           ~IsErr(app.events[i]) /\ ~IsQuit(app.events[i].event)
    /\ app.pc \in {"main", "draw", "read", "returned"} =>
           app.restores = 0 /\ app.exit = NoResult
    /\ app.pc = "restored" => app.restores = 1 /\ app.exit = NoResult
    /\ app.pc = "exited" => app.restores = 1 /\ app.exit = app.app_result

\* C24 witness: the second draw fails after a key that is not a 'q' press,
\* and main has restored the terminal and returned the error
C24_Witness ==
    /\ app.pc = "exited"
    /\ app.draws = 2
    /\ app.events = <<OkEvent(KeyEvent("Release", "q"))>>
    /\ app.last = "draw"
    /\ app.exit = Err("BrokenPipe", <<"write failed">>)
    /\ app.restores = 1

----------------------------------------------------------------------------
(* The render pass of the Terminal: the drawing closure fills the current   *)
(* Buffer, the Diff Engine compares it with the previous Buffer, the draw   *)
(* instructions go to Backend::draw, and previous := current.               *)

\* A Buffer over one row of three cells; a cell is a symbol with a style
BufferArea == Rect(0, 0, 3, 1)
Cell(symbol, style) == [symbol |-> symbol, style |-> style]
CellValues == {Cell(" ", "reset"), Cell("x", "reset"), Cell("x", "bold")}
Buffers == [1..BufferArea.width -> CellValues]
BufferEmpty == [i \in 1..BufferArea.width |-> Cell(" ", "reset")]

\* The dirty cells: those whose content or style differs
Dirty(previous, current) == {i \in DOMAIN current : current[i] # previous[i]}

\* The run of consecutive dirty cells of one style that starts at cell i
RECURSIVE RunEnd(_, _, _)
RunEnd(current, dirty, i) ==
    IF i + 1 \in dirty /\ current[i + 1].style = current[i].style
    THEN RunEnd(current, dirty, i + 1)
    ELSE i

\* Diff Engine: scan in order; each run of consecutive dirty cells of one
\* style is one draw instruction carrying the concatenated content
RECURSIVE DiffFrom(_, _, _)
DiffFrom(current, dirty, i) ==
    IF i > Len(current) THEN <<>>
    ELSE IF i \notin dirty THEN DiffFrom(current, dirty, i + 1)
    ELSE LET e == RunEnd(current, dirty, i) IN
         <<[x |-> BufferArea.x + i - 1, y |-> BufferArea.y,
            style |-> current[i].style,
            content |-> [k \in 1..(e - i + 1) |-> current[i + k - 1].symbol]]>>
         \o DiffFrom(current, dirty, e + 1)

Diff(previous, current) == DiffFrom(current, Dirty(previous, current), 1)

\* (the variant of the pass that never replaces the previous Buffer)
KeepPrevious(previous, current, result) == previous

\* previous := current at the end of a pass; a failure aborts the pass and
\* leaves the previous Buffer as it was
NextPrevious(previous, current, result) ==
    IF result = Ok THEN current ELSE previous

InitTerminal ==
    /\ GeomIdle
    /\ BackendIdle
    /\ ScrollbarIdle
    /\ op = "init"
    /\ arg = NoArg
    /\ app = NoArg
    /\ terminal = [previous |-> BufferEmpty, current |-> BufferEmpty,
                   before |-> BufferEmpty, sent |-> <<>>, result |-> NoResult,
                   last_current |-> BufferEmpty, last_result |-> NoResult,
                   passes |-> 0]

\* terminal.draw(closure): the closure renders the frame into the current
\* Buffer, the diff is sent to the backend and, on success, kept as previous
TerminalDraw ==
    \E frame \in Buffers, result \in IoResults :
        /\ terminal.passes < MaxPasses
        /\ terminal' = [previous |-> NextPrevious(terminal.previous, frame, result),
                        current |-> frame,
                        before |-> terminal.previous,
                        sent |-> Diff(terminal.previous, frame),
                        result |-> result,
                        last_current |-> terminal.current,
                        last_result |-> terminal.result,
                        passes |-> terminal.passes + 1]
        /\ op' = "draw"
        /\ arg' = NoArg
        /\ UNCHANGED <<rect, prev, out, steps>>
        /\ UNCHANGED backendVars
        /\ UNCHANGED scrollVars
        /\ UNCHANGED app

NextTerminal == TerminalDraw

SpecTerminal == InitTerminal /\ [][NextTerminal]_vars

\* The cells the draw instructions of the last pass cover
Drawn ==
    UNION {{terminal.sent[n].x - BufferArea.x + k : k \in 1..Len(terminal.sent[n].content)} :
              n \in DOMAIN terminal.sent}

\* C21: after a draw completes, drawing a second frame whose buffer is
\* identical to the previous one sends zero draw instructions to the
\* backend; only the cells that changed between the previous and the
\* current buffer are drawn.
C21_DiffIdempotence ==
    terminal.passes >= 1 =>
        /\ Drawn = Dirty(terminal.before, terminal.current)
        /\ terminal.current = terminal.before => terminal.sent = <<>>
        /\ (/\ terminal.passes >= 2
            /\ terminal.last_result = Ok
            /\ terminal.current = terminal.last_current)
           => terminal.sent = <<>>

\* C21 witness: a frame drawn with success and then drawn again unchanged
C21_Witness ==
    /\ terminal.passes = 2
    /\ terminal.last_result = Ok
    /\ terminal.last_current = <<Cell("x", "reset"), Cell(" ", "reset"), Cell("x", "bold")>>
    /\ terminal.current = terminal.last_current
    /\ terminal.sent = <<>>

====
